---- MODULE Spec2Model ----
(***************************************************************************)
(* TERMGAME mission execution: the circuit breaker of the container        *)
(* runtime (runtimes/health.py) and the mission engine                     *)
(* (engine/mission_engine.py, engine/state.py) driven by concurrent        *)
(* callers over an unreliable container daemon and a progress store.       *)
(***************************************************************************)
EXTENDS Integers, Sequences, FiniteSets, TLC

\* ------------------------------------------------------------------------
\* Bounds of the model
\* ------------------------------------------------------------------------
MaxClock == 68          \* last clock value (seconds) the model lets time reach
MaxFailCalls == 7       \* cap on consecutive_failures (unbounded int in the code)
MaxSteps == 2           \* steps of the longest scenario
MaxContainers == 2      \* sandboxes the daemon creates in one behaviour
MaxOverlaps == 1        \* calls invoked while another call is in flight, in one behaviour
MaxSetup == 2           \* setup commands of the longest scenario
MaxIdLen == 3           \* characters of a mission id

\* ------------------------------------------------------------------------
\* Program constants
\* ------------------------------------------------------------------------
max_failures == 5       \* HealthCheck.max_failures default
circuit_timeout == 30   \* HealthCheck.circuit_timeout default (seconds)
default_max_retries == 5        \* execute_command: max_retries default
default_base_delay == 1000      \* retry_base_delay default 1.0 s, in milliseconds
default_max_delay == 10000      \* retry_max_delay default 10.0 s, in milliseconds

\* time.time() is seconds since the epoch: when the tracker is constructed
\* the clock is already further than circuit_timeout from last_success = 0.0
StartClock == circuit_timeout + 1

VARIABLES
  health,     \* HealthCheck fields: last_success, consecutive_failures, circuit_open
  now,        \* time.time()
  hlog,       \* what the last tracker call was and what it returned
  active,     \* MissionEngine._active_missions: mission id -> MissionState object
  states,     \* the MissionState objects ever constructed, by the sandbox they hold
  sandbox,    \* the daemon's containers: status and name of each
  progress,   \* table mission_progress, one record per row
  total_xp,   \* users.total_xp of the engine's user
  stamp,      \* datetime.now(UTC), as a logical clock of the store
  pc,         \* where each caller's coroutine is suspended
  op,         \* the engine operation each caller has in flight
  last,       \* the return or raise made by the latest step, if it made one
  loc,        \* the local variables of each caller's coroutine
  teardown,   \* the stop/remove calls made on each sandbox, by engine path
  overlaps,   \* how many overlapping invocations the callers have used up
  rt,         \* DockerRuntime: its retry configuration and the operation it runs
  ids,        \* the mission id strings of the two missions, as character sequences
  threads     \* the worker threads of asyncio.to_thread running _exec

hvars == <<health, now, hlog, rt, ids, threads>>
evars == <<active, states, sandbox, progress, total_xp, stamp, pc, op, last, loc, teardown,
           overlaps, ids, threads>>
vars == <<health, now, hlog, active, states, sandbox, progress, total_xp, stamp,
          pc, op, last, loc, teardown, overlaps, rt, ids, threads>>

\* ------------------------------------------------------------------------
\* Scenarios (models/scenario.py), as the engine reads them
\* ------------------------------------------------------------------------
Missions == {"a", "b"}
Procs == {1, 2}             \* callers of the engine (CLI/TUI coroutines)
ContainerIds == 1..MaxContainers
NoContainer == 0            \* None, for a container or a MissionState reference
NoStep == 0                 \* step_id=None
NoRow == 0                  \* result.scalars().first() is None

\* Mission ids are paths under the scenarios directory
\* ('linux/basics/navigation'); "a" and "b" stand for the two missions and
\* ids gives the id string of each.  The characters that matter are a
\* letter, the path separator and the dash; an id begins and ends with a
\* letter.
IdChars == {"x", "/", "-"}
MissionIds == {id \in [1..MaxIdLen -> IdChars] : id[1] = "x" /\ id[MaxIdLen] = "x"}
DefaultIds == [m \in Missions |-> <<m>>]

\* Scenario.steps: mission "a" has MaxSteps steps, mission "b" has none
\* (steps is a required list that may be empty); a step's id is its position
NumSteps(m) == IF m = "a" THEN MaxSteps ELSE 0
StepIdArgs == 0..(MaxSteps + 1)     \* NoStep, the ids of the steps, an unknown id

\* Environment.setup: "a" runs MaxSetup setup commands, "b" none
NumSetup(m) == IF m = "a" THEN MaxSetup ELSE 0

\* Completion.xp
CompletionXp(m) == IF m = "a" THEN 50 ELSE 20

\* scenario.environment.workdir (mission_engine.py line 107).  Environment in
\* models/scenario.py declares image and setup only, so on a Scenario built
\* by that model the read raises AttributeError; a scenario object that
\* carries the attribute yields its value.
EnvironmentWorkdirRead == {"value", "AttributeError"}

\* StepValidation.matcher: the names the scenario schema accepts
SchemaMatchers == {"exact", "contains", "regex", "exists"}

\* the names create_cli_engine registers in the MatcherRegistry
RegisteredMatchers == {"exact", "contains", "exists"}

\* MatcherRegistry.create: the matcher instance, or the KeyError of get
registry_create(name) == IF name \in RegisteredMatchers THEN "matcher" ELSE "KeyError"

\* ScenarioLoader.load: the scenario, or ScenarioLoadError
LoaderOutcomes == {"scenario", "ScenarioLoadError"}

\* ------------------------------------------------------------------------
\* MissionState (engine/state.py)
\* ------------------------------------------------------------------------
NoState == [mission_id |-> "", container |-> NoContainer,
            current_step_index |-> 0, completed_steps |-> <<>>]

MissionState(m, c) == [mission_id |-> m, container |-> c,
                       current_step_index |-> 0, completed_steps |-> <<>>]

\* is_completed with > in place of >=
is_completed_off_by_one(st) == st.current_step_index > NumSteps(st.mission_id)

is_completed(st) == st.current_step_index >= NumSteps(st.mission_id)

\* the id of the current step, NoStep when all steps are completed
current_step(st) ==
  IF st.current_step_index < NumSteps(st.mission_id)
  THEN st.current_step_index + 1
  ELSE NoStep

\* advance_step that forgets to record the completed step
advance_step_no_append(st) ==
  IF ~is_completed(st)
  THEN [st EXCEPT !.current_step_index = @ + 1]
  ELSE st

advance_step(st) ==
  IF ~is_completed(st)
  THEN [st EXCEPT !.completed_steps =
                     IF current_step(st) # NoStep THEN Append(@, current_step(st)) ELSE @,
                  !.current_step_index = @ + 1]
  ELSE st

\* ------------------------------------------------------------------------
\* The store (db/models.py) and the daemon
\* ------------------------------------------------------------------------
\* a row of mission_progress built by MissionProgress(...) in start_mission
MissionProgress(m, c, t) ==
  [mission_id |-> m, current_step_index |-> 0, completed |-> FALSE,
   container_id |-> c, started_at |-> t, steps_completed |-> <<>>, xp_earned |-> 0]

NoChanges == [dirty |-> {}, val |-> MissionProgress("", NoContainer, 0)]

\* UPDATE of the dirty attributes of one row at flush
ApplyChanges(row, ch) ==
  [mission_id |-> row.mission_id,
   current_step_index |-> IF "current_step_index" \in ch.dirty
                          THEN ch.val.current_step_index ELSE row.current_step_index,
   completed |-> IF "completed" \in ch.dirty THEN ch.val.completed ELSE row.completed,
   container_id |-> IF "container_id" \in ch.dirty
                    THEN ch.val.container_id ELSE row.container_id,
   started_at |-> IF "started_at" \in ch.dirty THEN ch.val.started_at ELSE row.started_at,
   steps_completed |-> IF "steps_completed" \in ch.dirty
                       THEN ch.val.steps_completed ELSE row.steps_completed,
   xp_earned |-> IF "xp_earned" \in ch.dirty THEN ch.val.xp_earned ELSE row.xp_earned]

\* select(MissionProgress).where(user, mission, completed == False) ... first()
NotCompletedRows(tbl, m) ==
  {i \in 1..Len(tbl) : tbl[i].mission_id = m /\ ~tbl[i].completed}

Min(S) == CHOOSE x \in S : \A y \in S : x <= y

FirstNotCompleted_never_finds(tbl, m) == NoRow

FirstNotCompleted(tbl, m) ==
  IF NotCompletedRows(tbl, m) = {} THEN NoRow ELSE Min(NotCompletedRows(tbl, m))

\* the daemon's view of one container
NoSandbox == [status |-> "none", name |-> <<>>]
Exists(c) == sandbox[c].status \in {"running", "stopped"}
Created == {c \in ContainerIds : sandbox[c].status # "none"}

\* ------------------------------------------------------------------------
\* Coroutine bookkeeping
\* ------------------------------------------------------------------------
LocInit == [state |-> NoContainer, container |-> NoContainer, setup |-> 0,
            step |-> NoStep, is_valid |-> FALSE, row |-> NoRow,
            changes |-> NoChanges, cstate |-> NoContainer, done_row |-> NoRow,
            user_xp |-> -1, index0 |-> 0, fault |-> "none", matcher |-> ""]
\* (fault records that an execute_command of the setup loop raised)

NoOp == [name |-> "none", mission |-> "", step |-> NoStep]
NoResult == [kind |-> "none", status |-> "", current_step |-> 0, xp_earned |-> 0,
             index |-> 0, total |-> 0, cause |-> ""]
Returned(k) == [NoResult EXCEPT !.kind = k]
\* "raise k(msg) from e": the exception carries e as its __cause__
Raised(k, e) == [NoResult EXCEPT !.kind = k, !.cause = e]
\* last: the call that returned, its result, and for the claims the
\* MissionState it worked on, the step it resolved, the step index it
\* found when it was invoked and the await it was resumed from
NoReturn == [proc |-> 0, op |-> NoOp, result |-> NoResult,
             state |-> NoContainer, step |-> NoStep, index0 |-> 0, at |-> ""]

\* no worker thread runs _exec: pc is where each caller's thread is, reg
\* the value its "self.consecutive_failures += 1" has loaded, calls the
\* execute_command calls made and failed those that ended in record_failure
NoThreads == [pc |-> [t \in Procs |-> "idle"], reg |-> [t \in Procs |-> 0],
              calls |-> 0, failed |-> 0]

\* the engine after construction; used says how much of the callers'
\* allowance of overlapping invocations is gone from the start
EngineTables(used) ==
  /\ active = [m \in Missions |-> NoContainer]
  /\ states = [c \in ContainerIds |-> NoState]
  /\ sandbox = [c \in ContainerIds |-> NoSandbox]
  /\ progress = <<>>
  /\ total_xp = 0
  /\ stamp = 0
  /\ pc = [p \in Procs |-> "idle"]
  /\ op = [p \in Procs |-> NoOp]
  /\ last = NoReturn
  /\ loc = [p \in Procs |-> LocInit]
  /\ teardown = [c \in ContainerIds |-> {}]
  /\ overlaps = used
  /\ threads = NoThreads

\* the engine after construction, the two missions having ids that
\* share no character
EngineInit(used) ==
  /\ EngineTables(used)
  /\ ids = DefaultIds

\* ------------------------------------------------------------------------
\* DockerRuntime: retry configuration and per-operation record
\* ------------------------------------------------------------------------
\* getattr(self._config, ..., default) of execute_command
DefaultRetryConfig ==
  [max_retries |-> default_max_retries,
   base_delay |-> default_base_delay,
   max_delay |-> default_max_delay]

\* the configurations a runtime is constructed with: the defaults, a slower
\* base delay that reaches max_delay, a single attempt, and max_retries = 0
\* (Config.from_env takes int(TERMGAME_MAX_RETRIES) as it comes)
RetryConfigs ==
  { DefaultRetryConfig,
    [DefaultRetryConfig EXCEPT !.base_delay = 4 * default_base_delay],
    [DefaultRetryConfig EXCEPT !.max_retries = 1],
    [DefaultRetryConfig EXCEPT !.max_retries = 0] }

\* no time.sleep made
NoSleep == [k |-> -1, delay |-> 0, jitter |-> 0]

\* a runtime between operations.  Of the operation it runs the record keeps
\* where it is (pc, attempt), what should_attempt() answered (gate), the
\* calls made to the daemon (daemon, execs, pings), the sleeps, whether an
\* exec attempt succeeded (ok) or found the sandbox gone (gone), what the
\* operation returned or raised (result), the sandbox status it started
\* from (status0), and how many _cleanup_container calls the sandbox has had
\* before (prior) and in all (cleaned); container is the handle the caller
\* holds; callback says whether a progress_callback was passed to the
\* constructor and reported lists the calls made to it; health0 is the
\* tracker as the operation found it
RuntimeIdle(cfg) ==
  [cfg |-> cfg, container |-> 0, callback |-> FALSE, reported |-> <<>>,
   health0 |-> [last_success |-> 0, consecutive_failures |-> 0, circuit_open |-> FALSE],
   op |-> "none", pc |-> "idle", attempt |-> 0, gate |-> "none",
   daemon |-> 0, execs |-> 0, pings |-> 0, sleeps |-> 0, slept |-> NoSleep,
   ok |-> FALSE, gone |-> FALSE, result |-> "none",
   status0 |-> "none", prior |-> 0, cleaned |-> 0]

\* ------------------------------------------------------------------------
\* HealthCheck (runtimes/health.py)
\* ------------------------------------------------------------------------
HealthCheck == [last_success |-> 0, consecutive_failures |-> 0, circuit_open |-> FALSE]

\* record_success that leaves the circuit as it is
record_success_keeps_open(h, t) ==
  [h EXCEPT !.last_success = t, !.consecutive_failures = 0]

record_success(h, t) ==
  [h EXCEPT !.last_success = t, !.consecutive_failures = 0, !.circuit_open = FALSE]

record_failure(h) ==
  LET n == h.consecutive_failures + 1
  IN [h EXCEPT !.consecutive_failures = n,
               !.circuit_open = IF n >= max_failures THEN TRUE ELSE h.circuit_open]

\* the value should_attempt returns
should_attempt_result(h, t) ==
  IF ~h.circuit_open THEN TRUE
  ELSE IF t - h.last_success > circuit_timeout THEN TRUE
  ELSE FALSE

\* should_attempt that reopens for a try but keeps the failure count
should_attempt_state_keeps_count(h, t) ==
  IF ~h.circuit_open THEN h
  ELSE IF t - h.last_success > circuit_timeout
       THEN [h EXCEPT !.circuit_open = FALSE]
  ELSE h

\* the tracker after should_attempt
should_attempt_state(h, t) ==
  IF ~h.circuit_open THEN h
  ELSE IF t - h.last_success > circuit_timeout
       THEN [h EXCEPT !.circuit_open = FALSE, !.consecutive_failures = 0]
  ELSE h

\* probe: "granted" once should_attempt has let a caller through an open
\* circuit, "failed" once a record_failure has followed with no
\* record_success in between
HLogInit == [last |-> "init", ret |-> TRUE, failRun |-> 0, runBefore |-> 0, openBefore |-> FALSE,
             probe |-> "none"]

HealthInit ==
  /\ health = HealthCheck
  /\ now = StartClock
  /\ hlog = HLogInit
  /\ rt = RuntimeIdle(DefaultRetryConfig)
  /\ EngineInit(0)

Tick ==
  /\ \E d \in {1, circuit_timeout} :
       /\ now + d <= MaxClock
       /\ now' = now + d
  /\ UNCHANGED <<health, hlog, evars, rt>>

RecordSuccess ==
  /\ health' = record_success(health, now)
  /\ hlog' = [hlog EXCEPT !.last = "record_success", !.failRun = 0,
                          !.openBefore = health.circuit_open,
                          !.probe = "none"]
  /\ UNCHANGED <<now, evars, rt>>

RecordFailure ==
  /\ health.consecutive_failures < MaxFailCalls
  /\ health' = record_failure(health)
  /\ hlog' = [hlog EXCEPT !.last = "record_failure",
                          !.failRun = IF @ < max_failures THEN @ + 1 ELSE @,
                          !.openBefore = health.circuit_open,
                          !.probe = IF @ = "granted" THEN "failed" ELSE @]
  /\ UNCHANGED <<now, evars, rt>>

ShouldAttempt ==
  /\ health' = should_attempt_state(health, now)
  /\ hlog' = [last |-> "should_attempt",
              ret |-> should_attempt_result(health, now),
              failRun |-> 0,
              runBefore |-> hlog.failRun,
              openBefore |-> health.circuit_open,
              probe |-> IF health.circuit_open /\ should_attempt_result(health, now)
                        THEN "granted" ELSE "none"]
  /\ UNCHANGED <<now, evars, rt>>

HealthNext == Tick \/ RecordSuccess \/ RecordFailure \/ ShouldAttempt

SpecHealth == HealthInit /\ [][HealthNext]_vars

\* ------------------------------------------------------------------------
\* The runtime as the engine sees it (runtimes/docker_runtime.py)
\* ------------------------------------------------------------------------
\* what DockerRuntime.execute_command can end with on container c: output
\* only from a running container, ContainerNotFoundError only when it is
\* gone, ConnectionError whenever (exhausted retries or open circuit),
\* RuntimeError for an exception of the exec that is none of these
ExecOutcomes(c) ==
  IF sandbox[c].status = "running" THEN {"output", "ConnectionError", "RuntimeError"}
  ELSE IF sandbox[c].status = "removed" THEN {"ContainerNotFoundError", "ConnectionError"}
  ELSE {"ConnectionError"}

\* what the daemon does with a best-effort call: "done", or an error that
\* stop_container / remove_container swallow
DaemonReplies == {"done", "error"}

stop_container(sb, c, reply) ==
  IF reply = "done" /\ sb[c].status = "running"
  THEN [sb EXCEPT ![c].status = "stopped"]
  ELSE sb

remove_container(sb, c, reply) ==
  IF reply = "done" /\ sb[c].status \in {"running", "stopped"}
  THEN [sb EXCEPT ![c].status = "removed"]
  ELSE sb

\* _create: a container that already has the requested name is force-removed
RemoveNamed(sb, nm) ==
  [c \in ContainerIds |->
     IF sb[c].status \in {"running", "stopped"} /\ sb[c].name = nm
     THEN [sb[c] EXCEPT !.status = "removed"] ELSE sb[c]]

\* container_name = f"termgame-{mission_id.replace('/', '-')}-{self._user_id}"
container_name(id) ==
  <<"termgame-">> \o [i \in 1..Len(id) |-> IF id[i] = "/" THEN "-" ELSE id[i]] \o <<"-", "1">>

ContainerName(m) == container_name(ids[m])

\* a daemon that hands out an id it has handed out before
FreshContainer_reused == Min(ContainerIds)

\* the id the daemon gives the next container: one it has never given
FreshContainer == Cardinality(Created) + 1

\* ------------------------------------------------------------------------
\* Coroutine steps shared by the operations
\* ------------------------------------------------------------------------
Call(nm, m, sid) == [name |-> nm, mission |-> m, step |-> sid]

\* callers are interchangeable: a new call is taken by the first idle caller
FreeCaller(p) == pc[p] = "idle" /\ \A q \in Procs : q < p => pc[q] # "idle"

\* a call that returns before its first await; made while another call is
\* in flight only by callers that may still overlap
Immediate(p, c, r) ==
  /\ FreeCaller(p)
  /\ (\E q \in Procs : pc[q] # "idle") => overlaps < MaxOverlaps
  /\ last' = [NoReturn EXCEPT !.proc = p, !.op = c, !.result = r, !.at = "call"]
  /\ UNCHANGED <<pc, op, loc, overlaps>>

\* a call that runs up to its first await
Invoke(p, c, at, l) ==
  /\ FreeCaller(p)
  /\ IF \E q \in Procs : pc[q] # "idle"
     THEN overlaps < MaxOverlaps /\ overlaps' = overlaps + 1
     ELSE overlaps' = overlaps
  /\ pc' = [pc EXCEPT ![p] = at]
  /\ op' = [op EXCEPT ![p] = c]
  /\ loc' = [loc EXCEPT ![p] = l]
  /\ last' = NoReturn

\* a resumed coroutine returns or raises
Finish(p, r) ==
  /\ pc' = [pc EXCEPT ![p] = "idle"]
  /\ op' = [op EXCEPT ![p] = NoOp]
  /\ loc' = [loc EXCEPT ![p] = LocInit]
  /\ last' = [proc |-> p, op |-> op[p], result |-> r,
              state |-> loc[p].state, step |-> loc[p].step, index0 |-> loc[p].index0,
              at |-> pc[p]]
  /\ UNCHANGED overlaps

\* a resumed coroutine runs up to its next await
Suspend(p, at, l) ==
  /\ pc' = [pc EXCEPT ![p] = at]
  /\ loc' = [loc EXCEPT ![p] = l]
  /\ last' = NoReturn
  /\ UNCHANGED <<op, overlaps>>

\* ------------------------------------------------------------------------
\* MissionEngine.start_mission
\* ------------------------------------------------------------------------
\* start_mission without the "already active" check
already_active_unchecked(m) == FALSE

\* "if mission_id in self._active_missions"
already_active(m) == active[m] # NoContainer

\* the except clauses of lines 109-120 with ImagePullError left to propagate
creation_error_image_pull_escapes(exc) ==
  IF exc = "ImagePullError" THEN exc ELSE "ContainerCreationError"

\* what the except clauses of lines 109-120 raise for an exception of the
\* try block: ImagePullError, the runtime's ConnectionError and any other
\* Exception all become ContainerCreationError
creation_error(exc) == "ContainerCreationError"

\* the setup loop with a failed command taken for a successful one
setup_failed_ignored(out) == FALSE

\* "except RuntimeConnectionError / except Exception" of the setup loop
\* (lines 126-137): execute_command raised
setup_failed(out) == out # "output"

\* lines 90-108: the checks, the scenario load, the call of create_container
StartMission(p, m, ld, wd) ==
  /\ IF already_active(m)
     THEN Immediate(p, Call("start_mission", m, NoStep), Returned("MissionAlreadyActiveError"))
     ELSE IF ld = "ScenarioLoadError"
     THEN Immediate(p, Call("start_mission", m, NoStep), Returned("MissionNotFoundError"))
     ELSE IF wd = "AttributeError"
     THEN Immediate(p, Call("start_mission", m, NoStep), Returned(creation_error(wd)))
     ELSE Invoke(p, Call("start_mission", m, NoStep), "s_create", LocInit)
  /\ UNCHANGED <<hvars, active, states, sandbox, progress, total_xp, stamp, teardown>>

\* lines 139-146 followed by the first store call of the session
InsertState(p, m, c) ==
  /\ states' = [states EXCEPT ![c] = MissionState(m, c)]
  /\ active' = [active EXCEPT ![m] = c]
  /\ Suspend(p, "s_select", [loc[p] EXCEPT !.state = c, !.container = c])

\* create_container returns or raises (lines 104-120); then the first setup
\* command is sent, or with no setup commands the state is inserted
StartCreated(p) ==
  /\ pc[p] = "s_create"
  /\ LET m == op[p].mission
         c == FreshContainer
     IN \E out \in {"created", "ImagePullError", "ConnectionError"} :
          CASE out = "ConnectionError" ->
                 /\ Finish(p, Returned(creation_error(out)))
                 /\ UNCHANGED <<sandbox, states, active>>
            [] out = "ImagePullError" ->
                 /\ sandbox' = RemoveNamed(sandbox, ContainerName(m))
                 /\ Finish(p, Returned(creation_error(out)))
                 /\ UNCHANGED <<states, active>>
            [] out = "created" ->
                 /\ c \in ContainerIds
                 /\ sandbox' = [RemoveNamed(sandbox, ContainerName(m)) EXCEPT
                                  ![c] = [status |-> "running", name |-> ContainerName(m)]]
                 /\ IF NumSetup(m) > 0
                    THEN /\ Suspend(p, "s_setup", [loc[p] EXCEPT !.container = c, !.setup = 1])
                         /\ UNCHANGED <<states, active>>
                    ELSE InsertState(p, m, c)
  /\ UNCHANGED <<hvars, progress, total_xp, stamp, teardown>>

\* one setup command returns or raises (lines 123-137)
StartSetup(p) ==
  /\ pc[p] = "s_setup"
  /\ LET m == op[p].mission
         c == loc[p].container
     IN \E out \in ExecOutcomes(c) :
          IF ~setup_failed(out)
          THEN IF loc[p].setup < NumSetup(m)
               THEN /\ Suspend(p, "s_setup",
                         [loc[p] EXCEPT !.setup = @ + 1,
                                        !.fault = IF out = "output" THEN @ ELSE "setup"])
                    /\ UNCHANGED <<states, active>>
               ELSE InsertState(p, m, c)
          ELSE /\ Suspend(p, "s_stop", [loc[p] EXCEPT !.fault = "setup"])
               /\ UNCHANGED <<states, active>>
  /\ UNCHANGED <<hvars, sandbox, progress, total_xp, stamp, teardown>>

\* _cleanup_container after a failed setup: stop_container returns
StartCleanupStop(p) ==
  /\ pc[p] = "s_stop"
  /\ \E reply \in DaemonReplies :
       sandbox' = stop_container(sandbox, loc[p].container, reply)
  /\ teardown' = [teardown EXCEPT ![loc[p].container] = @ \cup {<<"start_mission", "stop">>}]
  /\ Suspend(p, "s_remove", loc[p])
  /\ UNCHANGED <<hvars, active, states, progress, total_xp, stamp>>

\* remove_container returns; ContainerCreationError is raised
StartCleanupRemove(p) ==
  /\ pc[p] = "s_remove"
  /\ \E reply \in DaemonReplies :
       sandbox' = remove_container(sandbox, loc[p].container, reply)
  /\ teardown' = [teardown EXCEPT ![loc[p].container] = @ \cup {<<"start_mission", "remove">>}]
  /\ Finish(p, Returned("ContainerCreationError"))
  /\ UNCHANGED <<hvars, active, states, progress, total_xp, stamp>>

\* the select of lines 151-158 returns; the record is updated or built
StartSelect(p) ==
  /\ pc[p] = "s_select"
  /\ LET m == op[p].mission
         row == FirstNotCompleted(progress, m)
     IN IF row # NoRow
        THEN /\ stamp' = stamp + 1
             /\ Suspend(p, "s_commit",
                  [loc[p] EXCEPT !.row = row,
                     !.changes = [dirty |-> {"current_step_index", "container_id", "started_at"},
                                  val |-> MissionProgress(m, loc[p].container, stamp + 1)]])
        ELSE /\ stamp' = stamp
             /\ Suspend(p, "s_commit",
                  [loc[p] EXCEPT !.row = NoRow,
                     !.changes = [dirty |-> {"new"},
                                  val |-> MissionProgress(m, loc[p].container, 0)]])
  /\ UNCHANGED <<hvars, active, states, sandbox, progress, total_xp, teardown>>

\* session.commit() of line 181 returns
StartCommit(p) ==
  /\ pc[p] = "s_commit"
  /\ IF loc[p].row = NoRow
     THEN /\ stamp' = stamp + 1
          /\ progress' = Append(progress, [loc[p].changes.val EXCEPT !.started_at = stamp + 1])
     ELSE /\ stamp' = stamp
          /\ progress' = [progress EXCEPT ![loc[p].row] = ApplyChanges(@, loc[p].changes)]
  /\ Finish(p, Returned("ok"))
  /\ UNCHANGED <<hvars, active, states, sandbox, total_xp, teardown>>

\* ------------------------------------------------------------------------
\* MissionEngine.validate_step
\* ------------------------------------------------------------------------
\* the step lookup falling back to the first step for an unknown id
find_step_falls_back(m, sid) == IF sid \in 1..NumSteps(m) THEN sid ELSE 1

\* next((s for s in state.scenario.steps if s.id == step_id), None)
find_step(m, sid) == IF sid \in 1..NumSteps(m) THEN sid ELSE NoStep

\* lines 201-240: the state lookup, the choice of the step, the check sent
\* to the runtime
ValidateStep(p, m, sid, mt) ==
  /\ LET r == active[m]
         st == states[r]
     IN IF r = NoContainer
        THEN Immediate(p, Call("validate_step", m, sid), Returned("MissionNotFoundError"))
        ELSE IF sid = NoStep
        THEN IF current_step(st) = NoStep
             THEN Immediate(p, Call("validate_step", m, sid), Returned("false"))
             ELSE Invoke(p, Call("validate_step", m, sid), "v_exec", 
                         [LocInit EXCEPT !.state = r, !.step = current_step(st),
                                         !.matcher = mt,
                                         !.index0 = st.current_step_index])
        ELSE IF find_step(m, sid) = NoStep
             THEN Immediate(p, Call("validate_step", m, sid), Returned("StepNotFoundError"))
             ELSE Invoke(p, Call("validate_step", m, sid), "v_exec", 
                         [LocInit EXCEPT !.state = r, !.step = find_step(m, sid),
                                         !.matcher = mt,
                                         !.index0 = st.current_step_index])
  /\ UNCHANGED <<hvars, active, states, sandbox, progress, total_xp, stamp, teardown>>

\* "if is_valid and step == state.current_step"
\* the advance rule without "step == state.current_step"
should_advance_any_step(st, step, is_valid) == is_valid

should_advance(st, step, is_valid) == is_valid /\ step = current_step(st)

\* the except clauses of lines 242-253 with "except Exception" left out
validation_error_other_escapes(exc) ==
  IF exc \in {"ContainerNotFoundError", "ConnectionError"}
  THEN "ValidationFailedError" ELSE exc

\* lines 242-253: ContainerNotFoundError, the runtime's ConnectionError and
\* any other Exception of the check are re-raised as ValidationFailedError
validation_error(exc) == "ValidationFailedError"

\* the check returns or raises (lines 222-261): matcher verdict, advance
ValidateExec(p) ==
  /\ pc[p] = "v_exec"
  /\ LET r == loc[p].state
         st == states[r]
     IN \E out \in ExecOutcomes(st.container), is_valid \in BOOLEAN :
          IF out # "output"
          THEN /\ Finish(p, Raised(validation_error(out), out))
               /\ UNCHANGED states
          ELSE IF registry_create(loc[p].matcher) = "KeyError"
          THEN /\ Finish(p, Returned("KeyError"))
               /\ UNCHANGED states
          ELSE IF should_advance(st, loc[p].step, is_valid)
          THEN /\ states' = [states EXCEPT ![r] = advance_step(st)]
               /\ Suspend(p, "v_select", [loc[p] EXCEPT !.is_valid = is_valid])
          ELSE /\ Finish(p, Returned(IF is_valid THEN "true" ELSE "false"))
               /\ UNCHANGED states
  /\ UNCHANGED <<hvars, active, sandbox, progress, total_xp, stamp, teardown>>

\* the select of lines 265-272 returns; lines 274-282 up to the next await
ValidateSelect(p) ==
  /\ pc[p] = "v_select"
  /\ LET m == op[p].mission
         st == states[loc[p].state]
         row == FirstNotCompleted(progress, m)
         l == [loc[p] EXCEPT !.row = row,
                 !.changes = [dirty |-> {"current_step_index", "steps_completed"},
                              val |-> [NoChanges.val EXCEPT
                                         !.current_step_index = st.current_step_index,
                                         !.steps_completed = st.completed_steps]]]
     IN IF row = NoRow
        THEN Finish(p, Returned(IF loc[p].is_valid THEN "true" ELSE "false"))
        ELSE IF is_completed(st) /\ active[m] # NoContainer
        THEN Suspend(p, "c_select", [l EXCEPT !.cstate = active[m]])
        ELSE Suspend(p, "v_commit", l)
  /\ UNCHANGED <<hvars, active, states, sandbox, progress, total_xp, stamp, teardown>>

\* ------------------------------------------------------------------------
\* MissionEngine._complete_mission, inside the session of validate_step
\* ------------------------------------------------------------------------
\* the select of lines 445-452 returns (the session has flushed its changes)
CompleteSelect(p) ==
  /\ pc[p] = "c_select"
  /\ LET m == op[p].mission
         view == [progress EXCEPT ![loc[p].row] = ApplyChanges(@, loc[p].changes)]
         row == FirstNotCompleted(view, m)
     IN IF row # NoRow
        THEN Suspend(p, "c_user", [loc[p] EXCEPT !.done_row = row])
        ELSE Suspend(p, "c_stop", loc[p])
  /\ UNCHANGED <<hvars, active, states, sandbox, progress, total_xp, stamp, teardown>>

\* the select of the user returns: user.total_xp += completion.xp
CompleteUser(p) ==
  /\ pc[p] = "c_user"
  /\ Suspend(p, "c_stop", [loc[p] EXCEPT !.user_xp = total_xp + CompletionXp(op[p].mission)])
  /\ UNCHANGED <<hvars, active, states, sandbox, progress, total_xp, stamp, teardown>>

\* _cleanup_container: stop_container returns
CompleteStop(p) ==
  /\ pc[p] = "c_stop"
  /\ LET c == states[loc[p].cstate].container
     IN /\ \E reply \in DaemonReplies : sandbox' = stop_container(sandbox, c, reply)
        /\ teardown' = [teardown EXCEPT ![c] = @ \cup {<<"complete", "stop">>}]
  /\ Suspend(p, "c_remove", loc[p])
  /\ UNCHANGED <<hvars, active, states, progress, total_xp, stamp>>

\* remove_container returns; "del self._active_missions[mission_id]"
CompleteRemove(p) ==
  /\ pc[p] = "c_remove"
  /\ LET m == op[p].mission
         c == states[loc[p].cstate].container
     IN /\ \E reply \in DaemonReplies : sandbox' = remove_container(sandbox, c, reply)
        /\ teardown' = [teardown EXCEPT ![c] = @ \cup {<<"complete", "remove">>}]
        /\ IF active[m] = NoContainer
           THEN /\ Finish(p, Returned("KeyError"))
                /\ UNCHANGED active
           ELSE /\ active' = [active EXCEPT ![m] = NoContainer]
                /\ Suspend(p, "v_commit", loc[p])
  /\ UNCHANGED <<hvars, states, progress, total_xp, stamp>>

\* a commit that loses the completion fields
CommitProgress_not_completed(tbl, l, m) ==
  [tbl EXCEPT ![l.row] = ApplyChanges(@, l.changes)]

\* what session.commit() of validate_step writes
CommitProgress(tbl, l, m) ==
  LET t1 == [tbl EXCEPT ![l.row] = ApplyChanges(@, l.changes)]
  IN IF l.done_row = NoRow THEN t1
     ELSE [t1 EXCEPT ![l.done_row].completed = TRUE,
                     ![l.done_row].xp_earned = CompletionXp(m)]

\* session.commit() of line 284 returns
ValidateCommit(p) ==
  /\ pc[p] = "v_commit"
  /\ progress' = CommitProgress(progress, loc[p], op[p].mission)
  /\ total_xp' = IF loc[p].user_xp >= 0 THEN loc[p].user_xp ELSE total_xp
  /\ Finish(p, Returned(IF loc[p].is_valid THEN "true" ELSE "false"))
  /\ UNCHANGED <<hvars, active, states, sandbox, stamp, teardown>>

\* ------------------------------------------------------------------------
\* MissionEngine.abandon_mission
\* ------------------------------------------------------------------------
AbandonMission(p, m) ==
  /\ IF active[m] = NoContainer
     THEN Immediate(p, Call("abandon_mission", m, NoStep), Returned("ok"))
     ELSE Invoke(p, Call("abandon_mission", m, NoStep), "a_stop", [LocInit EXCEPT !.state = active[m]])
  /\ UNCHANGED <<hvars, active, states, sandbox, progress, total_xp, stamp, teardown>>

AbandonStop(p) ==
  /\ pc[p] = "a_stop"
  /\ LET c == states[loc[p].state].container
     IN /\ \E reply \in DaemonReplies : sandbox' = stop_container(sandbox, c, reply)
        /\ teardown' = [teardown EXCEPT ![c] = @ \cup {<<"abandon", "stop">>}]
  /\ Suspend(p, "a_remove", loc[p])
  /\ UNCHANGED <<hvars, active, states, progress, total_xp, stamp>>

\* remove_container returns; "del self._active_missions[mission_id]"; select
AbandonRemove(p) ==
  /\ pc[p] = "a_remove"
  /\ LET m == op[p].mission
         c == states[loc[p].state].container
     IN /\ \E reply \in DaemonReplies : sandbox' = remove_container(sandbox, c, reply)
        /\ teardown' = [teardown EXCEPT ![c] = @ \cup {<<"abandon", "remove">>}]
        /\ IF active[m] = NoContainer
           THEN /\ Finish(p, Returned("KeyError"))
                /\ UNCHANGED active
           ELSE /\ active' = [active EXCEPT ![m] = NoContainer]
                /\ Suspend(p, "a_select", loc[p])
  /\ UNCHANGED <<hvars, states, progress, total_xp, stamp>>

\* abandon_mission also rewinding the step index of the record
abandon_changes_rewinds_index ==
  [dirty |-> {"container_id", "current_step_index"},
   val |-> [NoChanges.val EXCEPT !.container_id = NoContainer]]

\* lines 375-377: progress.container_id = None, progress.container_name = None
abandon_changes ==
  [dirty |-> {"container_id"},
   val |-> [NoChanges.val EXCEPT !.container_id = NoContainer]]

\* the select of lines 367-374 returns
AbandonSelect(p) ==
  /\ pc[p] = "a_select"
  /\ LET row == FirstNotCompleted(progress, op[p].mission)
     IN IF row = NoRow
        THEN Finish(p, Returned("ok"))
        ELSE Suspend(p, "a_commit",
               [loc[p] EXCEPT !.row = row, !.changes = abandon_changes])
  /\ UNCHANGED <<hvars, active, states, sandbox, progress, total_xp, stamp, teardown>>

AbandonCommit(p) ==
  /\ pc[p] = "a_commit"
  /\ progress' = [progress EXCEPT ![loc[p].row] = ApplyChanges(@, loc[p].changes)]
  /\ Finish(p, Returned("ok"))
  /\ UNCHANGED <<hvars, active, states, sandbox, total_xp, stamp, teardown>>

\* ------------------------------------------------------------------------
\* MissionEngine.get_mission_status and MissionEngine.execute_command
\* ------------------------------------------------------------------------
RowsOf(tbl, m) == {i \in 1..Len(tbl) : tbl[i].mission_id = m}

\* ... order_by(MissionProgress.started_at.desc()) ... first()
MostRecent(tbl, m) ==
  CHOOSE i \in RowsOf(tbl, m) : \A j \in RowsOf(tbl, m) : tbl[j].started_at <= tbl[i].started_at

get_mission_status(tbl, m) ==
  IF RowsOf(tbl, m) = {} THEN Returned("None")
  ELSE LET pr == tbl[MostRecent(tbl, m)]
       IN [NoResult EXCEPT
             !.kind = "status",
             !.status = IF pr.completed THEN "completed" ELSE "active",
             !.current_step = pr.current_step_index,
             !.xp_earned = IF pr.completed THEN pr.xp_earned ELSE 0]

GetMissionStatus(p, m) ==
  /\ Immediate(p, Call("get_mission_status", m, NoStep), get_mission_status(progress, m))
  /\ UNCHANGED <<hvars, active, states, sandbox, progress, total_xp, stamp, teardown>>

\* get_current_step reporting the position of the step, counted from one
get_current_step_one_based(m) ==
  LET st == states[active[m]]
  IN IF active[m] = NoContainer \/ current_step(st) = NoStep
     THEN Returned("None")
     ELSE [NoResult EXCEPT !.kind = "step", !.current_step = current_step(st),
                           !.index = st.current_step_index + 1,
                           !.total = NumSteps(st.mission_id)]

\* lines 297-309: None, or the dict of the current step (its id, its
\* index, the number of steps; title, description and hint go with the id)
get_current_step(m) ==
  LET st == states[active[m]]
  IN IF active[m] = NoContainer \/ current_step(st) = NoStep
     THEN Returned("None")
     ELSE [NoResult EXCEPT !.kind = "step", !.current_step = current_step(st),
                           !.index = st.current_step_index,
                           !.total = NumSteps(st.mission_id)]

\* lines 321-324: None, or the hint of the current step
get_hint(m) ==
  LET st == states[active[m]]
  IN IF active[m] = NoContainer \/ current_step(st) = NoStep
     THEN Returned("None")
     ELSE [NoResult EXCEPT !.kind = "hint", !.current_step = current_step(st)]

GetCurrentStep(p, m) ==
  /\ Immediate(p, Call("get_current_step", m, NoStep), get_current_step(m))
  /\ UNCHANGED <<hvars, active, states, sandbox, progress, total_xp, stamp, teardown>>

GetHint(p, m) ==
  /\ Immediate(p, Call("get_hint", m, NoStep), get_hint(m))
  /\ UNCHANGED <<hvars, active, states, sandbox, progress, total_xp, stamp, teardown>>

ExecuteCommand(p, m) ==
  /\ IF active[m] = NoContainer
     THEN Immediate(p, Call("execute_command", m, NoStep), Returned("MissionNotFoundError"))
     ELSE Invoke(p, Call("execute_command", m, NoStep), "x_exec", [LocInit EXCEPT !.state = active[m]])
  /\ UNCHANGED <<hvars, active, states, sandbox, progress, total_xp, stamp, teardown>>

ExecuteReturn(p) ==
  /\ pc[p] = "x_exec"
  /\ \E out \in ExecOutcomes(states[loc[p].state].container) : Finish(p, Returned(out))
  /\ UNCHANGED <<hvars, active, states, sandbox, progress, total_xp, stamp, teardown>>

\* ------------------------------------------------------------------------
\* Specifications
\* ------------------------------------------------------------------------
Init == HealthInit

\* one step of caller p; a new call takes its input from the given sets
StepOn(p, missions, loads, workdirs, sids, matchers) ==
  \/ \E m \in missions, ld \in loads, wd \in workdirs : StartMission(p, m, ld, wd)
  \/ StartCreated(p)
  \/ StartSetup(p)
  \/ StartCleanupStop(p)
  \/ StartCleanupRemove(p)
  \/ StartSelect(p)
  \/ StartCommit(p)
  \/ \E m \in missions, sid \in sids, mt \in matchers : ValidateStep(p, m, sid, mt)
  \/ ValidateExec(p)
  \/ ValidateSelect(p)
  \/ CompleteSelect(p)
  \/ CompleteUser(p)
  \/ CompleteStop(p)
  \/ CompleteRemove(p)
  \/ ValidateCommit(p)
  \/ \E m \in missions : AbandonMission(p, m)
  \/ AbandonStop(p)
  \/ AbandonRemove(p)
  \/ AbandonSelect(p)
  \/ AbandonCommit(p)

\* one step of caller p, a new call being on any mission
Step(p, loads, workdirs, sids, matchers) ==
  StepOn(p, Missions, loads, workdirs, sids, matchers)

\* the operations that read the engine and mutate neither table nor store
Query(p) ==
  \/ \E m \in Missions : GetMissionStatus(p, m)
  \/ \E m \in Missions : GetCurrentStep(p, m)
  \/ \E m \in Missions : GetHint(p, m)
  \/ \E m \in Missions : ExecuteCommand(p, m)
  \/ ExecuteReturn(p)

\* start, validate and abandon calls overlap freely: every await is a point
\* where another caller's coroutine runs.  The callers pass input that gets
\* past the checks made before the first await, on scenarios whose steps
\* name a registered matcher.
Next == \E p \in Procs : Step(p, {"scenario"}, {"value"}, 0..MaxSteps, {"exact"})

Spec == Init /\ [][Next]_vars

\* callers never overlap: their allowance of overlapping invocations is
\* empty from the start, so an operation is invoked only when none is in
\* flight; any input is passed, and a step names any matcher of the schema
InitSeq ==
  /\ health = HealthCheck
  /\ now = StartClock
  /\ hlog = HLogInit
  /\ rt = RuntimeIdle(DefaultRetryConfig)
  /\ EngineInit(MaxOverlaps)

NextSeq ==
  \E p \in Procs :
    \/ Step(p, LoaderOutcomes, EnvironmentWorkdirRead, StepIdArgs, SchemaMatchers)
    \/ Query(p)

SpecSeq == InitSeq /\ [][NextSeq]_vars

\* the missions no call is in flight on
FreeMissions == Missions \ {op[q].mission : q \in Procs}

\* calls overlap only when they are on different missions
NextMission ==
  \E p \in Procs : StepOn(p, FreeMissions, {"scenario"}, {"value"}, 0..MaxSteps, {"exact"})

SpecMission == Init /\ [][NextMission]_vars

\* a store call of the session of start_mission (the select of line 151,
\* the commit of line 181) raises: nothing around lines 149-181 catches it
StartStoreFails(p) ==
  /\ pc[p] \in {"s_select", "s_commit"}
  /\ Finish(p, Returned("SQLAlchemyError"))
  /\ UNCHANGED <<hvars, active, states, sandbox, progress, total_xp, stamp, teardown>>

\* callers never overlap, and the store may fail under start_mission
NextStore ==
  \E p \in Procs :
    \/ Step(p, {"scenario"}, {"value"}, 0..MaxSteps, {"exact"})
    \/ StartStoreFails(p)

SpecStore == InitSeq /\ [][NextStore]_vars

\* abandon_mission is called while no call is in flight, and start_mission
\* while none but abandon_mission calls are
NextRestart ==
  \E p \in Procs :
    \/ /\ \A q \in Procs : pc[q] = "idle" \/ op[q].name = "abandon_mission"
       /\ \E m \in Missions : StartMission(p, m, "scenario", "value")
    \/ StartCreated(p)
    \/ StartSetup(p)
    \/ StartCleanupStop(p)
    \/ StartCleanupRemove(p)
    \/ StartSelect(p)
    \/ StartCommit(p)
    \/ /\ \A q \in Procs : pc[q] = "idle"
       /\ \E m \in Missions : AbandonMission(p, m)
    \/ AbandonStop(p)
    \/ AbandonRemove(p)
    \/ AbandonSelect(p)
    \/ AbandonCommit(p)

SpecRestart == Init /\ [][NextRestart]_vars

\* ------------------------------------------------------------------------
\* execute_command calls of two callers, each _exec in its own worker
\* thread (asyncio.to_thread, line 318), on the one HealthCheck
\* ------------------------------------------------------------------------
tvars == <<now, hlog, rt, active, states, sandbox, progress, total_xp, stamp,
           pc, op, last, loc, teardown, overlaps, ids>>

\* lines 217-229 and 318: should_attempt, then _exec is handed to a thread
ThreadCall(t) ==
  /\ threads.pc[t] = "idle"
  /\ threads.calls < MaxFailCalls
  /\ health' = should_attempt_state(health, now)
  /\ threads' = [threads EXCEPT !.calls = @ + 1,
                   !.pc[t] = IF should_attempt_result(health, now) THEN "exec" ELSE "idle"]
  /\ UNCHANGED tvars

\* the last attempt of _exec failed (lines 296-304): record_failure is
\* entered and "self.consecutive_failures += 1" loads the attribute
ThreadLoad(t) ==
  /\ threads.pc[t] = "exec"
  /\ threads' = [threads EXCEPT !.pc[t] = "store", !.reg[t] = health.consecutive_failures]
  /\ UNCHANGED <<health, tvars>>

\* "self.consecutive_failures += 1" stores the sum (health.py line 50)
ThreadStore(t) ==
  /\ threads.pc[t] = "store"
  /\ health' = [health EXCEPT !.consecutive_failures = threads.reg[t] + 1]
  /\ threads' = [threads EXCEPT !.pc[t] = "test"]
  /\ UNCHANGED tvars

\* "if self.consecutive_failures >= self.max_failures" (lines 51-52); the
\* thread ends and RuntimeConnectionError reaches the caller
ThreadTest(t) ==
  /\ threads.pc[t] = "test"
  /\ health' = [health EXCEPT !.circuit_open =
                   IF health.consecutive_failures >= max_failures THEN TRUE ELSE @]
  /\ threads' = [threads EXCEPT !.pc[t] = "idle", !.failed = @ + 1]
  /\ UNCHANGED tvars

\* the tracker has recorded a success at the current time, so that no
\* timeout reset comes before the clock moves
InitThreads ==
  /\ health = record_success(HealthCheck, StartClock)
  /\ now = StartClock
  /\ hlog = HLogInit
  /\ rt = RuntimeIdle(DefaultRetryConfig)
  /\ EngineInit(MaxOverlaps)

NextThreads ==
  \E t \in Procs : ThreadCall(t) \/ ThreadLoad(t) \/ ThreadStore(t) \/ ThreadTest(t)

SpecThreads == InitThreads /\ [][NextThreads]_vars

\* validate_step calls overlap, also on one mission; a mission is started
\* while no call is in flight, and none is abandoned
NextValidate ==
  \E p \in Procs :
    \/ /\ \A q \in Procs : pc[q] = "idle"
       /\ \E m \in Missions : StartMission(p, m, "scenario", "value")
    \/ StartCreated(p)
    \/ StartSetup(p)
    \/ StartCleanupStop(p)
    \/ StartCleanupRemove(p)
    \/ StartSelect(p)
    \/ StartCommit(p)
    \/ \E m \in Missions, sid \in 0..MaxSteps : ValidateStep(p, m, sid, "exact")
    \/ ValidateExec(p)
    \/ ValidateSelect(p)
    \/ CompleteSelect(p)
    \/ CompleteUser(p)
    \/ CompleteStop(p)
    \/ CompleteRemove(p)
    \/ ValidateCommit(p)

SpecValidate == Init /\ [][NextValidate]_vars

\* missions are started one call at a time, their ids being any two
\* different ids
InitNames ==
  /\ health = HealthCheck
  /\ now = StartClock
  /\ hlog = HLogInit
  /\ rt = RuntimeIdle(DefaultRetryConfig)
  /\ EngineTables(MaxOverlaps)
  /\ ids \in {f \in [Missions -> MissionIds] : f["a"] # f["b"]}

NextNames ==
  \E p \in Procs :
    \/ \E m \in Missions : StartMission(p, m, "scenario", "value")
    \/ StartCreated(p)
    \/ StartSetup(p)
    \/ StartCleanupStop(p)
    \/ StartCleanupRemove(p)
    \/ StartSelect(p)
    \/ StartCommit(p)

SpecNames == InitNames /\ [][NextNames]_vars

\* ------------------------------------------------------------------------
\* DockerRuntime (runtimes/docker_runtime.py), operation by operation
\* ------------------------------------------------------------------------
\* fractional part of time.time() when a jitter is drawn, in tenths
ClockFractions == {0, 2, 9}

\* delay = min(base_delay * (2**attempt), max_delay) without the cap
backoff_delay_uncapped(cfg, k) == cfg.base_delay * 2^k

\* delay = min(base_delay * (2**attempt), max_delay), milliseconds
backoff_delay(cfg, k) == Min({cfg.base_delay * 2^k, cfg.max_delay})

\* jitter = delay * 0.1 * (2 * time.time() % 1 - 0.5): with the clock's
\* fraction f tenths, (2 * t) % 1 is ((2 * f) % 10) tenths
backoff_jitter(delay, f) == (delay \div 100) * (((2 * f) % 10) - 5)

\* what one exec attempt can meet on container c: output, docker NotFound,
\* a connection-class error, or some other exception
AttemptOutcomes(c) ==
  IF c = NoContainer \/ sandbox[c].status \in {"none", "removed"}
  THEN {"NotFound", "transient"}
  ELSE IF sandbox[c].status = "running" THEN {"output", "transient", "unexpected"}
  ELSE {"transient"}

\* the except clauses with APIError (the base class of NotFound) tried first
handler_api_error_first(out) ==
  IF out \in {"NotFound", "transient"} THEN "retry" ELSE "unexpected"

\* the except clause that takes an exception of _exec's try block
handler(out) ==
  IF out = "NotFound" THEN "permanent"
  ELSE IF out = "transient" THEN "retry"
  ELSE "unexpected"

\* the transient marker of what an operation raised (runtimes/exceptions.py)
transient(res) == res = "ConnectionError"

\* _stop / _remove with "except Exception: pass" left out
best_effort_result_reraising(reply) ==
  IF reply = "error" THEN "APIError" ELSE "None"

\* what stop_container / remove_container end with, whatever the daemon
\* replied: both except clauses of _stop / _remove pass
best_effort_result(reply) == "None"

\* lines 218-222: what execute_command raises when should_attempt() is false
circuit_open_error == "ConnectionError"

\* lines 250-253 and 306-309: what _exec raises when no attempt is left
retries_exhausted_error == "ConnectionError"

\* the record at the start of an operation
NewCall(opname) ==
  [RuntimeIdle(rt.cfg) EXCEPT
     !.container = rt.container, !.op = opname, !.cleaned = rt.cleaned,
     !.callback = rt.callback, !.health0 = health,
     !.prior = rt.cleaned,
     !.status0 = IF rt.container = NoContainer THEN "none"
                 ELSE sandbox[rt.container].status]

Between == rt.pc \in {"idle", "done"}

Done(r, res) == [r EXCEPT !.pc = "done", !.result = res]

\* time.sleep(delay + jitter) after failed attempt k, then "continue"
SleepAndContinue(r, f) ==
  LET d == backoff_delay(r.cfg, r.attempt)
  IN [r EXCEPT !.sleeps = @ + 1,
               !.slept = [k |-> r.attempt, delay |-> d, jitter |-> backoff_jitter(d, f)],
               !.attempt = @ + 1,
               !.pc = "ping"]

rvars == <<hlog, active, states, progress, total_xp, stamp, pc, op, last, loc,
           teardown, overlaps, ids, threads>>

\* create_container: no circuit check; _create talks to the daemon
RtCreateContainer ==
  /\ Between
  /\ LET c == FreshContainer
         r == [NewCall("create_container") EXCEPT !.daemon = 1]
     IN \E out \in {"created", "ImagePullError", "APIError"} :
          IF out = "created"
          THEN /\ c \in ContainerIds
               /\ sandbox' = [RemoveNamed(sandbox, ContainerName("a")) EXCEPT
                                ![c] = [status |-> "running", name |-> ContainerName("a")]]
               /\ rt' = [Done(r, "container") EXCEPT !.container = c, !.cleaned = 0, !.prior = 0]
          ELSE /\ sandbox' = RemoveNamed(sandbox, ContainerName("a"))
               /\ rt' = Done(r, out)
  /\ UNCHANGED <<health, now, rvars>>

\* execute_command up to the first exec attempt (lines 217-229)
RtExecuteCommand ==
  /\ Between
  /\ rt.container # NoContainer
  /\ LET r == NewCall("execute_command")
     IN /\ health' = should_attempt_state(health, now)
        /\ rt' = IF ~should_attempt_result(health, now)
                 THEN Done([r EXCEPT !.gate = "false"], circuit_open_error)
                 ELSE IF r.cfg.max_retries <= 0
                 THEN Done([r EXCEPT !.gate = "true"], "output")
                 ELSE [r EXCEPT !.gate = "true", !.pc = "exec"]
  /\ UNCHANGED <<now, sandbox, rvars>>

\* the attempt number reported, counted from zero
report_attempt_zero_based(k) == k

\* line 235: the attempt number passed to _report_progress is attempt + 1
report_attempt(k) == k + 1

\* _report_progress (lines 119-120) as called at lines 233-237: the
\* callback, if there is one, gets (message, attempt + 1, max_retries)
report_progress(r) ==
  IF r.callback
  THEN [r EXCEPT !.reported =
          Append(@, [attempt |-> report_attempt(r.attempt), total |-> r.cfg.max_retries])]
  ELSE r

\* the report and _validate_connection before attempt k > 0 (lines 232-252)
RtPing ==
  /\ rt.pc = "ping"
  /\ LET r == [report_progress(rt) EXCEPT !.daemon = @ + 1, !.pings = @ + 1]
     IN \E alive \in BOOLEAN, f \in ClockFractions :
          IF alive
          THEN /\ rt' = [r EXCEPT !.pc = "exec"]
               /\ UNCHANGED health
          ELSE IF r.attempt < r.cfg.max_retries - 1
          THEN /\ rt' = SleepAndContinue(r, f)
               /\ UNCHANGED health
          ELSE /\ rt' = Done(r, retries_exhausted_error)
               /\ health' = record_failure(health)
  /\ UNCHANGED <<now, sandbox, rvars>>

\* one exec attempt (lines 254-314)
RtExec ==
  /\ rt.pc = "exec"
  /\ LET r == [rt EXCEPT !.daemon = @ + 1, !.execs = @ + 1]
     IN \E out \in AttemptOutcomes(rt.container), f \in ClockFractions :
          IF out = "output"
          THEN /\ rt' = Done([r EXCEPT !.ok = TRUE], "output")
               /\ health' = record_success(health, now)
          ELSE IF handler(out) = "permanent"
          THEN /\ rt' = Done([r EXCEPT !.gone = TRUE], "ContainerNotFoundError")
               /\ UNCHANGED health
          ELSE IF handler(out) = "retry"
          THEN IF r.attempt < r.cfg.max_retries - 1
               THEN /\ rt' = SleepAndContinue([r EXCEPT !.gone = (out = "NotFound")], f)
                    /\ UNCHANGED health
               ELSE /\ rt' = Done([r EXCEPT !.gone = (out = "NotFound")], retries_exhausted_error)
                    /\ health' = record_failure(health)
          ELSE /\ rt' = Done(r, "RuntimeError")
               /\ UNCHANGED health
  /\ UNCHANGED <<now, sandbox, rvars>>

\* stop_container: no circuit check; every error of _stop is swallowed
RtStopContainer ==
  /\ Between
  /\ rt.container # NoContainer
  /\ \E reply \in DaemonReplies :
       /\ sandbox' = stop_container(sandbox, rt.container, reply)
       /\ rt' = Done([NewCall("stop_container") EXCEPT !.daemon = 1],
                     best_effort_result(reply))
  /\ UNCHANGED <<health, now, rvars>>

\* remove_container: no circuit check; every error of _remove is swallowed
RtRemoveContainer ==
  /\ Between
  /\ rt.container # NoContainer
  /\ \E reply \in DaemonReplies :
       /\ sandbox' = remove_container(sandbox, rt.container, reply)
       /\ rt' = Done([NewCall("remove_container") EXCEPT !.daemon = 1],
                     best_effort_result(reply))
  /\ UNCHANGED <<health, now, rvars>>

\* MissionEngine._cleanup_container: await stop_container; an exception of
\* it would skip remove_container and be swallowed by "except Exception"
RtCleanup ==
  /\ Between
  /\ rt.container # NoContainer
  /\ \E reply \in DaemonReplies :
       /\ sandbox' = stop_container(sandbox, rt.container, reply)
       /\ rt' = IF best_effort_result(reply) = "None"
                THEN [NewCall("_cleanup_container") EXCEPT
                        !.daemon = 1, !.pc = "cleanup_remove"]
                ELSE Done([NewCall("_cleanup_container") EXCEPT
                             !.daemon = 1, !.cleaned = IF @ < 2 THEN @ + 1 ELSE @], "None")
  /\ UNCHANGED <<health, now, rvars>>

\* MissionEngine._cleanup_container: await remove_container, return
RtCleanupRemove ==
  /\ rt.pc = "cleanup_remove"
  /\ \E reply \in DaemonReplies :
       sandbox' = remove_container(sandbox, rt.container, reply)
  /\ rt' = Done([rt EXCEPT !.daemon = @ + 1,
                           !.cleaned = IF @ < 2 THEN @ + 1 ELSE @], "None")
  /\ UNCHANGED <<health, now, rvars>>

\* between two operations the clock moves on, past a circuit_timeout
RtTick ==
  /\ Between
  /\ now + circuit_timeout + 1 <= MaxClock
  /\ now' = now + circuit_timeout + 1
  /\ UNCHANGED <<health, sandbox, rt, rvars>>

InitRuntime ==
  /\ health = HealthCheck
  /\ now = StartClock
  /\ hlog = HLogInit
  /\ rt \in {[RuntimeIdle(cfg) EXCEPT !.callback = cb] : cfg \in RetryConfigs, cb \in BOOLEAN}
  /\ EngineInit(0)

NextRuntime ==
  \/ RtCreateContainer
  \/ RtExecuteCommand
  \/ RtPing
  \/ RtExec
  \/ RtStopContainer
  \/ RtRemoveContainer
  \/ RtCleanup
  \/ RtCleanupRemove
  \/ RtTick

SpecRuntime == InitRuntime /\ [][NextRuntime]_vars

\* ------------------------------------------------------------------------
\* Claims on the circuit breaker
\* ------------------------------------------------------------------------

\* C9: in every reachable tracker state circuit_open implies
\* consecutive_failures >= max_failures, consecutive_failures is never
\* negative, and right after record_success the circuit is closed with a
\* zero failure count.
C9_CircuitInvariant ==
  /\ health.circuit_open => health.consecutive_failures >= max_failures
  /\ health.consecutive_failures >= 0
  /\ hlog.last = "record_success" =>
       /\ ~health.circuit_open
       /\ health.consecutive_failures = 0

\* C9 witness: record_success was called on an open circuit and closed it.
C9_Witness_OpenThenSuccess ==
  /\ hlog.last = "record_success"
  /\ hlog.openBefore
  /\ ~health.circuit_open
  /\ health.consecutive_failures = 0

\* C10 (as claimed): a should_attempt() that directly follows max_failures
\* consecutive record_failure() calls returns false.
C10_BlockedAfterMaxFailures ==
  (hlog.last = "should_attempt" /\ hlog.runBefore >= max_failures) => hlog.ret = FALSE

\* ------------------------------------------------------------------------
\* Claims on the mission engine
\* ------------------------------------------------------------------------
InStart(p, m) == op[p].name = "start_mission" /\ op[p].mission = m

\* C1 (as claimed): of the start_mission calls in flight on one mission id,
\* at most one holds a sandbox it created.
C1_OneStartCreatesSandbox ==
  \A m \in Missions : \A p, q \in Procs :
    (p # q /\ InStart(p, m) /\ InStart(q, m)) =>
      ~(loc[p].container # NoContainer /\ loc[q].container # NoContainer)

Unchanged_Engine ==
  UNCHANGED <<active, states, sandbox, progress, total_xp, stamp, pc, op, loc, teardown>>

\* C2: a start_mission on a mission id that is in the active table raises
\* MissionAlreadyActiveError in that very step, calls neither the runtime
\* nor the store, and leaves the active table and every MissionState as
\* they were.
C2_StartOnActiveRejected ==
  [][\A p \in Procs, m \in Missions, ld \in LoaderOutcomes, wd \in EnvironmentWorkdirRead :
       (StartMission(p, m, ld, wd) /\ active[m] # NoContainer) =>
          /\ last'.result.kind = "MissionAlreadyActiveError"
          /\ last'.op = Call("start_mission", m, NoStep)
          /\ Unchanged_Engine]_vars

\* C2 witness: a start was rejected while the run it collided with had
\* already advanced.
C2_Witness_RejectedStart ==
  /\ last.op.name = "start_mission"
  /\ last.result.kind = "MissionAlreadyActiveError"
  /\ active[last.op.mission] # NoContainer
  /\ states[active[last.op.mission]].current_step_index > 0

\* C3 (as claimed): the completion path and the abandon path never both
\* tear down one sandbox.
C3_TeardownByOnePath ==
  \A c \in ContainerIds :
    ~(\E x, y \in teardown[c] : x[1] = "complete" /\ y[1] = "abandon")

DocumentedValidateResults ==
  {"true", "false", "MissionNotFoundError", "StepNotFoundError", "ValidationFailedError"}

\* both the completion path and the abandon path have worked on sandbox c
RacedRun(c) ==
  /\ c # NoContainer
  /\ \E x, y \in teardown[c] : x[1] = "complete" /\ y[1] = "abandon"

\* C4 (as claimed): when abandon_mission and a validate_step have both
\* worked on one run, abandon_mission returns without raising,
\* validate_step ends with a boolean or one of its documented errors, and
\* once both have returned the mission is absent from the active table.
C4_RaceEndsCleanly ==
  RacedRun(last.state) =>
    /\ last.op.name = "abandon_mission" => last.result.kind = "ok"
    /\ last.op.name = "validate_step" => last.result.kind \in DocumentedValidateResults
    /\ (\A p \in Procs : pc[p] = "idle") => active[last.op.mission] = NoContainer

Live(c) == states[c].container # NoContainer

\* C5: every MissionState has 0 <= current_step_index <= len(steps),
\* is_completed exactly when current_step_index = len(steps), and as many
\* completed_steps as current_step_index; no step of any operation lowers
\* current_step_index.
C5_MissionStateInvariant ==
  /\ [](\A c \in ContainerIds : Live(c) =>
          /\ 0 <= states[c].current_step_index
          /\ states[c].current_step_index <= NumSteps(states[c].mission_id)
          /\ is_completed(states[c]) <=>
               (states[c].current_step_index = NumSteps(states[c].mission_id))
          /\ Len(states[c].completed_steps) = states[c].current_step_index)
  /\ [][\A c \in ContainerIds : Live(c) =>
          states'[c].current_step_index >= states[c].current_step_index]_vars

\* C5 witness: a run of the longest scenario has all its steps completed.
C5_Witness_AllStepsCompleted ==
  \E c \in ContainerIds :
    /\ Live(c)
    /\ states[c].current_step_index = MaxSteps
    /\ Len(states[c].completed_steps) = MaxSteps

\* the latest step is the return of a validate_step of the current step
\* that answered true
ReturnedAdvance ==
  /\ last.op.name = "validate_step"
  /\ last.result.kind = "true"
  /\ last.step = last.index0 + 1

\* C6: with callers that never overlap, a validate_step of the current
\* step that matches raises current_step_index by exactly 1 and appends
\* the id of the validated step; is_completed is false until the call on
\* the last step returns, true from then on, and never turns false again.
C6_InOrderCompletion ==
  /\ [](ReturnedAdvance =>
          LET st == states[last.state]
          IN /\ st.current_step_index = last.index0 + 1
             /\ Len(st.completed_steps) = last.index0 + 1
             /\ st.completed_steps[last.index0 + 1] = last.step
             /\ is_completed(st) <=> (last.step = NumSteps(st.mission_id)))
  /\ [][\A c \in ContainerIds : Live(c) =>
          /\ states'[c].current_step_index \in
               {states[c].current_step_index, states[c].current_step_index + 1}
          /\ SubSeq(states'[c].completed_steps, 1, Len(states[c].completed_steps))
               = states[c].completed_steps
          /\ is_completed(states[c]) => is_completed(states'[c])
          /\ (~is_completed(states[c]) /\ is_completed(states'[c])) =>
               \E p \in Procs : /\ pc[p] = "v_exec"
                                /\ loc[p].state = c
                                /\ loc[p].step = NumSteps(states[c].mission_id)]_vars

\* C6 witness: the call on the last step of the longest scenario returned
\* true.
C6_Witness_LastStepValidated ==
  /\ ReturnedAdvance
  /\ last.op.mission = "a"
  /\ last.step = MaxSteps
  /\ is_completed(states[last.state])

\* the row a run's start wrote its sandbox into
RowOfRun(c) == CHOOSE i \in 1..Len(progress) : progress[i].container_id = c

\* C7: with callers that never overlap, a validate_step that returns a
\* boolean has advanced the MissionState exactly when the validated step
\* was the current step and the result is true, and then the Progress
\* Record carries the new step index and completed steps; a call that
\* returns without advancing changed neither a MissionState, nor the
\* active table, nor the Progress Records, nor the user's XP.
C7_AdvanceIffCurrentAndMatch ==
  /\ []((last.op.name = "validate_step" /\ last.result.kind \in {"true", "false"}
           /\ last.state # NoContainer) =>
          LET st == states[last.state]
              advanced == st.current_step_index = last.index0 + 1
          IN /\ st.current_step_index \in {last.index0, last.index0 + 1}
             /\ advanced <=> (last.step = last.index0 + 1 /\ last.result.kind = "true")
             /\ advanced =>
                  /\ \E i \in 1..Len(progress) : progress[i].container_id = last.state
                  /\ progress[RowOfRun(last.state)].current_step_index = st.current_step_index
                  /\ progress[RowOfRun(last.state)].steps_completed = st.completed_steps)
  /\ [][\A p \in Procs :
          (op[p].name = "validate_step" /\ pc[p] = "v_exec" /\ pc'[p] = "idle"
             /\ last'.result.kind \in {"true", "false"}) =>
            UNCHANGED <<active, states, progress, total_xp, sandbox>>]_vars
  /\ [][(last'.op.name = "validate_step" /\ last'.state = NoContainer) =>
            UNCHANGED <<active, states, progress, total_xp, sandbox>>]_vars

\* C7 witness: a step that is not the current one was validated, matched,
\* and the run stayed on its step.
C7_Witness_NonCurrentMatched ==
  /\ last.op.name = "validate_step"
  /\ last.result.kind = "true"
  /\ last.step # last.index0 + 1
  /\ states[last.state].current_step_index = last.index0

\* the latest step is the return of the validate_step that validated the
\* last step of its run, as the current step, with a match
ReturnedCompletion ==
  /\ ReturnedAdvance
  /\ last.step = NumSteps(last.op.mission)

\* what C8 says of the engine and the store once the completing call is back
CompletionRecorded ==
  LET m == last.op.mission
  IN /\ active[m] = NoContainer
     /\ \E i \in 1..Len(progress) :
          /\ progress[i].container_id = last.state
          /\ progress[i].mission_id = m
          /\ progress[i].completed
          /\ progress[i].xp_earned = CompletionXp(m)
     /\ get_mission_status(progress, m).kind = "status"
     /\ get_mission_status(progress, m).status = "completed"
     /\ get_mission_status(progress, m).xp_earned = CompletionXp(m)

C11_HalfOpenAfterTimeout ==
  [][(ShouldAttempt /\ health.circuit_open) =>
       IF now - health.last_success <= circuit_timeout
       THEN /\ hlog'.ret = FALSE
            /\ health' = health
       ELSE /\ hlog'.ret = TRUE
            /\ health'.consecutive_failures = 0
            /\ ~health'.circuit_open
            /\ health'.last_success = health.last_success]_vars

\* C11 witness: should_attempt() was refused on an open circuit whose last
\* success is a real one, at most circuit_timeout ago.
C11_Witness_RefusedWithinTimeout ==
  /\ hlog.last = "should_attempt"
  /\ hlog.openBefore
  /\ hlog.ret = FALSE
  /\ health.circuit_open
  /\ health.last_success >= StartClock
  /\ now - health.last_success <= circuit_timeout

\* ------------------------------------------------------------------------
\* Claims on the container runtime
\* ------------------------------------------------------------------------

\* C12 (as claimed): an operation of the runtime that has called the daemon
\* has consulted should_attempt() first and was let through, and an
\* operation that should_attempt() refused has ended with the connection
\* error without any call to the daemon.
C12_EveryDaemonCallGated ==
  /\ rt.daemon > 0 => rt.gate = "true"
  /\ rt.gate = "false" =>
       /\ rt.daemon = 0
       /\ rt.pc = "done"
       /\ rt.result = "ConnectionError"

\* C13: when an exec attempt of execute_command finds the sandbox gone, the
\* call ends in that step with ContainerNotFoundError, which is not
\* transient: no further exec attempt, no ping and no sleep follows, and the
\* tracker is not touched, on whichever attempt it happens.
C13_NotFoundEndsCall ==
  /\ [](rt.gone =>
          /\ rt.pc = "done"
          /\ rt.result = "ContainerNotFoundError"
          /\ ~transient(rt.result))
  /\ [][(rt.pc = "exec" /\ rt'.gone) =>
          /\ rt'.execs = rt.execs + 1
          /\ rt'.pings = rt.pings
          /\ rt'.sleeps = rt.sleeps
          /\ health' = health]_vars

\* C13 witness: the sandbox was found gone on a later attempt than the first.
C13_Witness_GoneOnLaterAttempt ==
  /\ rt.op = "execute_command"
  /\ rt.gone
  /\ rt.attempt > 0
  /\ rt.result = "ContainerNotFoundError"

\* C14 (as claimed): an execute_command call makes at most max_retries exec
\* attempts, its attempt counter stays below max_retries (so it ends), and
\* it returns an output string only when an exec attempt succeeded: when
\* every attempt failed it has raised the transient connection error.
C14_BoundedAttemptsThenConnectionError ==
  rt.op = "execute_command" =>
    /\ rt.execs <= rt.cfg.max_retries
    /\ rt.pc # "done" => rt.attempt < rt.cfg.max_retries
    /\ (rt.pc = "done" /\ rt.result = "output") => rt.ok
    /\ (rt.pc = "done" /\ ~rt.ok /\ ~rt.gone /\ rt.result # "RuntimeError") =>
         /\ rt.result = "ConnectionError"
         /\ transient(rt.result)

\* C15: the sleep after failed attempt k of execute_command happens only for
\* k < max_retries - 1, lasts min(base_delay * 2^k, max_delay) before
\* jitter, which is at most max_delay and at least the delay of the sleep
\* before it, and its jitter is at most 10% of that delay in magnitude.
C15_BackoffDelay ==
  [][(rt'.sleeps = rt.sleeps + 1) =>
       LET k == rt.attempt
           raw == rt.cfg.base_delay * 2^k
           sl == rt'.slept
       IN /\ sl.k = k
          /\ k < rt.cfg.max_retries - 1
          /\ sl.delay = IF raw < rt.cfg.max_delay THEN raw ELSE rt.cfg.max_delay
          /\ sl.delay <= rt.cfg.max_delay
          /\ rt.slept.k >= 0 => (rt.slept.k < k /\ rt.slept.delay <= sl.delay)
          /\ 10 * sl.jitter <= sl.delay
          /\ -10 * sl.jitter <= sl.delay]_vars

\* C15 witness: a sleep whose exponential delay was cut down to max_delay.
C15_Witness_DelayCapped ==
  /\ rt.slept.k >= 0
  /\ rt.cfg.base_delay * 2^rt.slept.k > rt.cfg.max_delay
  /\ rt.slept.delay = rt.cfg.max_delay
  /\ rt.slept.jitter # 0

CleanupOps == {"stop_container", "remove_container", "_cleanup_container"}

\* C16 (as claimed): stop_container, remove_container and
\* _cleanup_container return None whatever the daemon replied, and a
\* _cleanup_container that follows an earlier one on the same sandbox leaves
\* the sandbox as it found it.
C16_SecondCleanupChangesNothing ==
  /\ (rt.op \in CleanupOps /\ rt.pc = "done") => rt.result = "None"
  /\ (rt.op = "_cleanup_container" /\ rt.prior >= 1) =>
       sandbox[rt.container].status = rt.status0

\* C16 (amended): stop_container, remove_container and _cleanup_container
\* return None whatever the daemon replied and never touch the tracker; run
\* on a sandbox that is already gone they change nothing, and a later
\* cleanup changes the sandbox only by stopping or removing what an earlier
\* one left behind.
C16_CleanupNeverRaises ==
  /\ []((rt.op \in CleanupOps /\ rt.pc = "done") => rt.result = "None")
  /\ []((rt.op \in CleanupOps /\ rt.status0 = "removed") =>
          sandbox[rt.container].status = "removed")
  /\ []((rt.op \in CleanupOps /\ sandbox[rt.container].status # rt.status0) =>
          /\ rt.status0 \in {"running", "stopped"}
          /\ sandbox[rt.container].status \in {"stopped", "removed"})
  /\ [][(rt'.op \in CleanupOps /\ rt' # rt) => health' = health]_vars

\* C16 witness: a second _cleanup_container ran on a sandbox that the first
\* one had removed.
C16_Witness_SecondCleanupOnGone ==
  /\ rt.op = "_cleanup_container"
  /\ rt.pc = "done"
  /\ rt.prior >= 1
  /\ rt.status0 = "removed"

\* ------------------------------------------------------------------------
\* Claims on start_mission
\* ------------------------------------------------------------------------
StartFailedBy(p, at) ==
  /\ op[p].name = "start_mission"
  /\ pc[p] = at
  /\ pc'[p] = "idle"

\* C17: when create_container raises, whatever it raises, start_mission
\* raises ContainerCreationError, and neither that step nor the invocation
\* before it changed the active table, a MissionState, a Progress Record or
\* the user's XP.
C17_CreationFailureLeavesNoTrace ==
  /\ [][\A p \in Procs :
          StartFailedBy(p, "s_create") =>
            /\ last'.result.kind = "ContainerCreationError"
            /\ UNCHANGED <<active, states, progress, total_xp>>]_vars
  /\ [][\A p \in Procs :
          (pc[p] = "idle" /\ pc'[p] = "s_create") =>
            UNCHANGED <<active, states, progress, total_xp, sandbox>>]_vars
  /\ []((last.op.name = "start_mission" /\ last.at = "s_create") =>
          /\ last.result.kind = "ContainerCreationError"
          /\ active[last.op.mission] = NoContainer)

\* C17 witness: creation failed for a mission that has a Progress Record
\* from an earlier run.
C17_Witness_CreationFailedAfterEarlierRun ==
  /\ last.op.name = "start_mission"
  /\ last.at = "s_create"
  /\ last.result.kind = "ContainerCreationError"
  /\ RowsOf(progress, last.op.mission) # {}

StartTeardown == {<<"start_mission", "stop">>, <<"start_mission", "remove">>}

\* C18: once a setup command of start_mission has failed, no further setup
\* command is run and no MissionState is inserted; the call goes on to stop
\* and remove the sandbox it created and raises ContainerCreationError,
\* with the mission absent from the active table; from its invocation to
\* its end the call wrote no Progress Record.
C18_SetupFailureRollsBack ==
  /\ [](\A p \in Procs :
          loc[p].fault = "setup" =>
            /\ pc[p] \in {"s_stop", "s_remove"}
            /\ active[op[p].mission] = NoContainer)
  /\ [][\A p \in Procs :
          loc[p].fault = "setup" =>
            /\ pc'[p] \in {"s_stop", "s_remove", "idle"}
            /\ UNCHANGED <<active, states, progress, total_xp>>
            /\ pc'[p] = "idle" =>
                 /\ last'.result.kind = "ContainerCreationError"
                 /\ StartTeardown \subseteq teardown'[loc[p].container]
                 /\ active'[op[p].mission] = NoContainer]_vars
  /\ [][\A p \in Procs :
          (pc[p] \in {"idle", "s_create", "s_setup"} /\ pc'[p] \in {"s_create", "s_setup", "s_stop"}) =>
            UNCHANGED <<active, states, progress, total_xp>>]_vars

\* C18 witness: the first of several setup commands failed and the sandbox
\* is being torn down.
C18_Witness_FirstSetupFailed ==
  \E p \in Procs :
    /\ loc[p].fault = "setup"
    /\ loc[p].setup = 1
    /\ NumSetup(op[p].mission) > 1
    /\ pc[p] = "s_remove"
    /\ <<"start_mission", "stop">> \in teardown[loc[p].container]

\* C19 (as claimed): a start_mission on an inactive mission whose scenario
\* loads fails only when the creation of the sandbox or a setup command
\* failed; when it returns, the active table holds a fresh MissionState
\* (index 0, no completed steps) and the store a not-completed Progress
\* Record of the mission with step index 0 and the new sandbox.
C19_StartSucceeds ==
  last.op.name = "start_mission" =>
    /\ last.result.kind \in {"ok", "MissionAlreadyActiveError", "MissionNotFoundError",
                             "ContainerCreationError"}
    /\ last.result.kind = "ContainerCreationError" => last.at \in {"s_create", "s_remove"}
    /\ last.result.kind = "ok" =>
         /\ active[last.op.mission] = last.state
         /\ states[last.state].mission_id = last.op.mission
         /\ states[last.state].current_step_index = 0
         /\ states[last.state].completed_steps = <<>>
         /\ \E i \in NotCompletedRows(progress, last.op.mission) :
              /\ progress[i].current_step_index = 0
              /\ progress[i].container_id = last.state

\* C20: when calls on one mission id do not overlap, the store never holds
\* two not-completed Progress Records of one mission; a start_mission that
\* commits while the mission has a not-completed record (left by an
\* abandon) adds no record and writes the new sandbox and step index 0 into
\* that record.
C20_OneOpenRecordPerMission ==
  /\ [](\A m \in Missions : Cardinality(NotCompletedRows(progress, m)) <= 1)
  /\ [][\A p \in Procs :
          (/\ pc[p] = "s_commit"
           /\ pc'[p] = "idle"
           /\ NotCompletedRows(progress, op[p].mission) # {}) =>
            LET m == op[p].mission
                i == FirstNotCompleted(progress, m)
            IN /\ Len(progress') = Len(progress)
               /\ NotCompletedRows(progress', m) = {i}
               /\ progress'[i].container_id = loc[p].state
               /\ progress'[i].current_step_index = 0
               /\ \A j \in 1..Len(progress) : j # i => progress'[j] = progress[j]]_vars

\* C20 witness: a mission was started, abandoned and started again, and the
\* store holds the one record, now carrying the second sandbox.
C20_Witness_RestartAfterAbandon ==
  /\ last.op.name = "start_mission"
  /\ last.result.kind = "ok"
  /\ \E c \in ContainerIds : c # last.state /\ <<"abandon", "remove">> \in teardown[c]
  /\ Len(progress) = 1
  /\ progress[1].mission_id = last.op.mission
  /\ progress[1].container_id = last.state
  /\ ~progress[1].completed

\* ------------------------------------------------------------------------
\* Claims on abandon_mission, the read operations and validate_step
\* ------------------------------------------------------------------------
AbandonTeardown == {<<"abandon", "stop">>, <<"abandon", "remove">>}

\* C21: abandon_mission on an active mission stops and removes its sandbox,
\* takes the mission out of the active table and commits its not-completed
\* Progress Record with the sandbox id emptied and every other field as it
\* was, touching no other record; on a mission that is not active it
\* returns at once, with no runtime call and no store write.
C21_AbandonEffects ==
  /\ [][\A p \in Procs :
          (pc[p] = "a_commit" /\ pc'[p] = "idle") =>
            LET m == op[p].mission
                i == FirstNotCompleted(progress, m)
            IN /\ i # NoRow
               /\ Len(progress') = Len(progress)
               /\ progress'[i] = [progress[i] EXCEPT !.container_id = NoContainer]
               /\ \A j \in 1..Len(progress) : j # i => progress'[j] = progress[j]
               /\ active'[m] = NoContainer
               /\ AbandonTeardown \subseteq teardown'[states[loc[p].state].container]
               /\ last'.result.kind = "ok"]_vars
  /\ [][\A p \in Procs :
          (op[p].name = "abandon_mission" /\ pc[p] # "a_commit") =>
            /\ UNCHANGED <<progress, total_xp, states>>
            /\ pc[p] = "a_select" => pc'[p] = "a_commit"]_vars
  /\ [][\A m \in Missions :
          (last'.op = Call("abandon_mission", m, NoStep) /\ last'.at = "call") =>
            /\ active[m] = NoContainer
            /\ last'.result.kind = "ok"
            /\ UNCHANGED <<active, states, sandbox, teardown, progress, total_xp, pc>>]_vars

\* C21 witness: a mission with a completed step was abandoned; its record
\* has lost the sandbox and kept the step index and the completed steps.
C21_Witness_AbandonedAfterProgress ==
  /\ last.op.name = "abandon_mission"
  /\ last.at = "a_commit"
  /\ \E i \in NotCompletedRows(progress, last.op.mission) :
       /\ progress[i].container_id = NoContainer
       /\ progress[i].current_step_index = 1
       /\ progress[i].steps_completed = <<1>>

ReadOps == {"get_current_step", "get_hint"}

\* C22: get_current_step and get_hint change nothing in the engine, the
\* daemon or the store and never raise: they return None when the mission
\* has no active Mission State or all its steps are completed, and
\* otherwise the step at current_step_index, get_current_step with
\* index = current_step_index and total = len(steps).
C22_ReadsArePure ==
  [][last'.op.name \in ReadOps =>
       LET m == last'.op.mission
           st == states[active[m]]
           r == last'.result
       IN /\ UNCHANGED <<active, states, sandbox, progress, total_xp, stamp, teardown,
                         pc, op, loc, health>>
          /\ IF active[m] = NoContainer \/ is_completed(st)
             THEN r = Returned("None")
             ELSE /\ r.kind = IF last'.op.name = "get_hint" THEN "hint" ELSE "step"
                  /\ r.current_step = st.current_step_index + 1
                  /\ r.current_step \in 1..NumSteps(m)
                  /\ last'.op.name = "get_current_step" =>
                       /\ r.index = st.current_step_index
                       /\ r.total = NumSteps(m)]_vars

\* C22 witness: get_current_step on a mission whose first step is done
\* returned the second step.
C22_Witness_SecondStepRead ==
  /\ last.op.name = "get_current_step"
  /\ last.result.kind = "step"
  /\ last.result.index = 1
  /\ last.result.current_step = 2

\* C23: validate_step on a mission with no active entry raises
\* MissionNotFoundError, and with a step_id that is no step of the scenario
\* StepNotFoundError; either way the call ends before any command is sent
\* to a sandbox and leaves the Mission States, the active table and the
\* Progress Records as they were.  No such call gets as far as the check.
C23_ValidateRejectsUnknown ==
  [][\A m \in Missions, sid \in StepIdArgs :
       LET c == Call("validate_step", m, sid)
           unknown == sid # NoStep /\ sid \notin 1..NumSteps(m)
       IN /\ (\E p \in Procs : pc[p] = "idle" /\ op'[p] = c) =>
               (active[m] # NoContainer /\ ~unknown)
          /\ (last'.op = c /\ last'.at = "call") =>
               /\ active[m] = NoContainer => last'.result.kind = "MissionNotFoundError"
               /\ (active[m] # NoContainer /\ unknown) =>
                    last'.result.kind = "StepNotFoundError"
               /\ UNCHANGED <<active, states, sandbox, progress, total_xp, teardown, pc, loc>>]_vars

\* C23 witness: an unknown step id was rejected on a mission that is active
\* and has advanced.
C23_Witness_UnknownStepOnActive ==
  /\ last.op.name = "validate_step"
  /\ last.result.kind = "StepNotFoundError"
  /\ active[last.op.mission] # NoContainer
  /\ states[active[last.op.mission]].current_step_index = 1

RuntimeFailures == {"ContainerNotFoundError", "ConnectionError", "RuntimeError"}

\* C24: when execute_command raises while validate_step runs the check of
\* a step (the sandbox is gone, the connection failed or the circuit is
\* open, or anything else), validate_step raises ValidationFailedError, and
\* neither that step nor the invocation before it changed a Mission State,
\* the active table, a Progress Record or the XP.
C24_RuntimeFailureSurfaces ==
  /\ [][\A p \in Procs :
          (pc[p] = "v_exec" /\ pc'[p] = "idle" /\ last'.result.cause \in RuntimeFailures) =>
            /\ last'.result.kind = "ValidationFailedError"
            /\ UNCHANGED <<active, states, progress, total_xp>>]_vars
  /\ [][\A p \in Procs :
          (pc[p] = "idle" /\ pc'[p] = "v_exec") =>
            UNCHANGED <<active, states, progress, total_xp, sandbox>>]_vars

\* C24 witness: the sandbox of an active mission was gone when the check
\* of its step ran.
C24_Witness_SandboxGone ==
  /\ last.op.name = "validate_step"
  /\ last.result.kind = "ValidationFailedError"
  /\ last.result.cause = "ContainerNotFoundError"

\* C25 (as claimed): validate_step ends with a boolean or one of its
\* documented errors (MissionNotFoundError, StepNotFoundError,
\* ValidationFailedError) whatever matcher the step names among those the
\* scenario schema accepts, and creating a matcher that is not registered
\* fails with MatcherNotRegistered.
C25_UnregisteredMatcherDocumented ==
  (last.op.name = "validate_step" /\ last.at = "v_exec") =>
    /\ last.result.kind \in {"true", "false", "MissionNotFoundError", "StepNotFoundError",
                              "ValidationFailedError"}
    /\ \A name \in SchemaMatchers \ RegisteredMatchers :
         registry_create(name) = "MatcherNotRegistered"

\* the awaits made inside "async with self._session_factory() as session"
SessionOpen(p) ==
  pc[p] \in {"s_select", "s_commit", "v_select", "c_select", "c_user", "c_stop",
             "c_remove", "v_commit", "a_select", "a_commit"}

\* the awaits of a call to the runtime (create, execute, stop, remove)
RuntimeCallPending(p) ==
  pc[p] \in {"s_create", "s_setup", "s_stop", "s_remove", "v_exec", "c_stop",
             "c_remove", "a_stop", "a_remove", "x_exec"}

\* C26 (as claimed): no caller is ever waiting for a call to the runtime
\* while the persistence session its operation opened is still open.
C26_NoSessionAcrossRuntimeCall ==
  \A p \in Procs : ~(SessionOpen(p) /\ RuntimeCallPending(p))

\* C27 (as claimed): right after a start_mission that returned normally or
\* a validate_step that advanced and committed, if the mission is active
\* its not-completed Progress Record carries the current_step_index and
\* the completed_steps of its Mission State.
C27_RecordMirrorsState ==
  LET m == last.op.mission
      st == states[active[m]]
  IN (/\ \/ last.op.name = "start_mission" /\ last.result.kind = "ok"
         \/ last.op.name = "validate_step" /\ last.at = "v_commit"
      /\ active[m] # NoContainer) =>
       \E i \in NotCompletedRows(progress, m) :
         /\ progress[i].current_step_index = st.current_step_index
         /\ progress[i].steps_completed = st.completed_steps

\* ------------------------------------------------------------------------
\* Claims on the circuit as execute_command uses it
\* ------------------------------------------------------------------------
\* C28 (as claimed): an execute_command refused by the open circuit has
\* made no daemon call, neither exec nor ping, and ends with an error of
\* another kind than the error of a call that ran out of retries.
C28_CircuitOpenDistinguishable ==
  (rt.op = "execute_command" /\ rt.pc = "done" /\ rt.gate = "false") =>
    /\ rt.daemon = 0
    /\ rt.execs = 0
    /\ rt.pings = 0
    /\ rt.result = circuit_open_error
    /\ rt.result # retries_exhausted_error

\* C29 (as claimed): once should_attempt() has let a caller through an open
\* circuit and that attempt was followed by record_failure() with no
\* record_success(), the next should_attempt() returns false.
C29_FailedProbeReopens ==
  [][(hlog.probe = "failed" /\ hlog'.last = "should_attempt") => hlog'.ret = FALSE]_vars

\* ------------------------------------------------------------------------
\* Claims on the sandbox handle of a Mission State
\* ------------------------------------------------------------------------
\* C30: no two entries of the active table are Mission States holding the
\* same sandbox, and no step changes the sandbox or the mission of a
\* Mission State once start_mission has constructed it.
C30_SandboxHandleNotShared ==
  /\ [](\A m1, m2 \in Missions :
          (m1 # m2 /\ active[m1] # NoContainer /\ active[m2] # NoContainer) =>
            /\ active[m1] # active[m2]
            /\ states[active[m1]].container # states[active[m2]].container)
  /\ [](\A m \in Missions :
          active[m] # NoContainer =>
            /\ states[active[m]].mission_id = m
            /\ states[active[m]].container \in Created)
  /\ [][\A c \in ContainerIds :
          Live(c) =>
            /\ states'[c].container = states[c].container
            /\ states'[c].mission_id = states[c].mission_id]_vars

\* C30 witness: two missions are active at once, one of them advanced.
C30_Witness_TwoActiveRuns ==
  /\ active["a"] # NoContainer
  /\ active["b"] # NoContainer
  /\ states[active["a"]].current_step_index = 1

\* ------------------------------------------------------------------------
\* Claims on teardown, retries and races
\* ------------------------------------------------------------------------
\* the awaits of stop_container / remove_container made by abandon_mission
\* and by _complete_mission
TearingDown(p) == pc[p] \in {"a_stop", "a_remove", "c_stop", "c_remove"}

\* the Mission State whose sandbox caller p is tearing down
TornState(p) == IF pc[p] \in {"a_stop", "a_remove"} THEN loc[p].state ELSE loc[p].cstate

\* C31 (as claimed): while abandon_mission or the completion path waits
\* for stop or remove of a sandbox, the Mission State holding that sandbox
\* is no longer in the active table.
C31_RemovedBeforeTeardown ==
  \A p \in Procs :
    TearingDown(p) => active[op[p].mission] # TornState(p)

\* C32: in one execute_command the first attempt reports nothing; every
\* later attempt has reported exactly once by the time it pings, and so
\* before it executes, with attempt numbers 2, 3, ... in order, none above
\* max_retries, and total = max_retries.  Without a callback nothing is
\* reported, and pings, execs and sleeps are counted the same way.
C32_ProgressReportedPerRetry ==
  rt.op = "execute_command" =>
    /\ Len(rt.reported) = IF rt.callback THEN rt.pings ELSE 0
    /\ \A i \in 1..Len(rt.reported) :
         /\ rt.reported[i].attempt = i + 1
         /\ rt.reported[i].attempt <= rt.cfg.max_retries
         /\ rt.reported[i].total = rt.cfg.max_retries
    /\ rt.pings = IF rt.pc = "ping" THEN rt.attempt - 1 ELSE rt.attempt
    /\ rt.execs <= rt.pings + 1
    /\ rt.sleeps <= rt.attempt
    /\ (rt.attempt = 0 /\ rt.pc # "idle") => (rt.reported = <<>> /\ rt.pings = 0)

\* C32 witness: a call with a callback succeeded on its third attempt,
\* after two reports.
C32_Witness_ThirdAttemptSucceeds ==
  /\ rt.op = "execute_command"
  /\ rt.callback
  /\ rt.pc = "done"
  /\ rt.result = "output"
  /\ rt.execs = 3
  /\ Len(rt.reported) = 2

\* C33 (as claimed): the two missions, having different ids, get different
\* sandbox names, and while missions are started one after the other the
\* sandbox of every mission in the active table is running.
C33_StartLeavesOtherSandbox ==
  \A m \in Missions :
    active[m] # NoContainer =>
      /\ sandbox[states[active[m]].container].status = "running"
      /\ \A m2 \in Missions \ {m} :
           active[m2] # NoContainer =>
             sandbox[states[active[m]].container].name #
               sandbox[states[active[m2]].container].name

\* the runs of mission m whose steps are all completed
CompletedRuns(m) ==
  {c \in ContainerIds : Live(c) /\ states[c].mission_id = m /\ is_completed(states[c])}

CompletedRows(tbl, m) == {i \in 1..Len(tbl) : tbl[i].mission_id = m /\ tbl[i].completed}

\* C34 (as claimed): however validate_step calls overlap, the user's total
\* XP is at most the scenario's xp for every completed run, a mission has
\* at most one completed Progress Record per completed run, and a
\* validate_step ends with a boolean or a documented error.
C34_CompletionOncePerRun ==
  /\ total_xp <= CompletionXp("a") * Cardinality(CompletedRuns("a"))
                   + CompletionXp("b") * Cardinality(CompletedRuns("b"))
  /\ \A m \in Missions :
       Cardinality(CompletedRows(progress, m)) <= Cardinality(CompletedRuns(m))
  /\ last.op.name = "validate_step" =>
       last.result.kind \in DocumentedValidateResults

\* C35 (as claimed): whenever no engine operation is in flight, no Mission
\* State in the active table has all its steps completed.
C35_NoCompletedStateWhenIdle ==
  (\A p \in Procs : pc[p] = "idle") =>
    \A m \in Missions :
      active[m] # NoContainer => ~is_completed(states[active[m]])

\* C39 (as claimed): get_mission_status reports "active" only for a mission
\* of the active table, and xp_earned 0 whenever the status it reports is
\* not "completed".
C39_ActiveStatusOnlyIfActive ==
  (last.op.name = "get_mission_status" /\ last.result.kind = "status") =>
    /\ last.result.status = "active" => active[last.op.mission] # NoContainer
    /\ last.result.status # "completed" => last.result.xp_earned = 0

\* C36 (as claimed): when a start_mission that got past the "already
\* active" check ends with an error, the mission is not in the active
\* table and the sandbox the call bound to its Mission State is not running.
C36_FailedStartLeavesNothing ==
  (/\ last.op.name = "start_mission"
   /\ last.result.kind \notin {"ok", "MissionAlreadyActiveError"}) =>
     /\ active[last.op.mission] = NoContainer
     /\ last.state # NoContainer => sandbox[last.state].status # "running"

\* C37 (as claimed): once abandon_mission and a following start_mission
\* have both finished and the mission is in the active table, its
\* not-completed Progress Record carries the sandbox of the active Mission
\* State.
C37_RecordCarriesActiveSandbox ==
  (\A p \in Procs : pc[p] = "idle") =>
    \A m \in Missions :
      active[m] # NoContainer =>
        /\ FirstNotCompleted(progress, m) # NoRow
        /\ progress[FirstNotCompleted(progress, m)].container_id
             = states[active[m]].container

\* C38 (as claimed): an execute_command that ends with
\* ContainerNotFoundError or with the circuit-open error leaves the Health
\* Tracker as it found it.
C38_TrackerUntouchedOnNotFound ==
  (/\ rt.op = "execute_command"
   /\ rt.pc = "done"
   /\ \/ rt.result = "ContainerNotFoundError"
      \/ rt.result = circuit_open_error /\ rt.gate = "false") =>
     health = rt.health0

\* C40 (as claimed): when no worker thread is inside record_failure, k
\* calls having ended in record_failure since the last success,
\* consecutive_failures is k and the circuit is open if k >= max_failures.
C40_NoFailureLost ==
  (\A t \in Procs : threads.pc[t] \in {"idle", "exec"}) =>
    /\ health.consecutive_failures = threads.failed
    /\ threads.failed >= max_failures => health.circuit_open

====
